---- MODULE Spec2Model ----
(***************************************************************************)
(* Model of clowc/src/parser/ast.rs: the conversion Type::from, the        *)
(* canonical renderings of Keyword and Operator, and the diagnostic        *)
(* renderer of ParseError.                                                 *)
(*                                                                         *)
(* The functions are pure.  The state is the last call made (function and  *)
(* argument, drawn from bounded sets) and what the call returned; one      *)
(* action per function applies it.                                         *)
(*                                                                         *)
(* A source buffer is a Rust &str: a sequence of bytes that is valid       *)
(* UTF-8.  Bytes are written as one-character strings, with "<C3>" and     *)
(* "<A9>" standing for the lead and the continuation byte of one two-byte  *)
(* character.  Text written to the formatter is a string.                  *)
(***************************************************************************)
EXTENDS Integers, Sequences, FiniteSets

VARIABLES call, ret

vars == <<call, ret>>

(* ------------------------------ bounds --------------------------------- *)

MaxLen == 3
MaxLine == 2
MaxColumn == 1

(* ------------------------------ text ----------------------------------- *)

LF == "\n"
CR == "\r"
Lead == "<C3>"
Cont == "<A9>"

u8 == {"a", LF, CR, Lead, Cont}

\* The bytes of a sequence written out as text.
RECURSIVE Str(_)
Str(bytes) == IF bytes = <<>> THEN "" ELSE bytes[1] \o Str(Tail(bytes))

\* Display of usize: decimal, no padding, no sign.
Digit == <<"0", "1", "2", "3", "4", "5", "6", "7", "8", "9">>

RECURSIVE Dec(_)
Dec(n) == IF n < 10 THEN Digit[n + 1] ELSE Dec(n \div 10) \o Digit[(n % 10) + 1]

\* A &str holds well-formed UTF-8: a lead byte is followed by its
\* continuation byte and a continuation byte follows its lead byte.
IsUtf8(s) ==
    \A i \in 1..Len(s) :
        /\ s[i] = Lead => (i < Len(s) /\ s[i + 1] = Cont)
        /\ s[i] = Cont => (i > 1 /\ s[i - 1] = Lead)

\* str::is_char_boundary: 0 and len are boundaries, and so is every index
\* whose byte does not continue a character.
is_char_boundary(s, index) ==
    \/ index = 0
    \/ index = Len(s)
    \/ (index < Len(s) /\ s[index + 1] # Cont)

(* ------------------------------ Option --------------------------------- *)

None == <<>>
Some(x) == <<x>>

\* Variant: the default is dropped, as unwrap_or_default would.
unwrap_or_empty(opt, default) == IF opt = None THEN <<>> ELSE opt[1]

unwrap_or(opt, default) == IF opt = None THEN default ELSE opt[1]

(* ------------------------------ Type ----------------------------------- *)

TypeByte == [tag |-> "Byte"]
TypeInt == [tag |-> "Int"]
TypeLong == [tag |-> "Long"]
TypeFloat == [tag |-> "Float"]
TypeDouble == [tag |-> "Double"]
Class(name) == [tag |-> "Class", name |-> name]
Generic(name, args) == [tag |-> "Generic", name |-> name, args |-> args]

\* Variant: the arm of "long" yields the variant of the arm above it.
from_long_as_int(type_name) ==
    CASE type_name = "byte" -> TypeByte
      [] type_name = "int" -> TypeInt
      [] type_name = "long" -> TypeInt
      [] type_name = "float" -> TypeFloat
      [] type_name = "double" -> TypeDouble
      [] OTHER -> Class(type_name)

\* Variant: the name is trimmed and lowercased before the match.
from_normalised(type_name) ==
    CASE type_name \in {"byte", "BYTE", "Byte", " byte "} -> TypeByte
      [] type_name \in {"int", "Int", " int", "int "} -> TypeInt
      [] type_name \in {"long", "LONG"} -> TypeLong
      [] type_name \in {"float", "Float", "float\n"} -> TypeFloat
      [] type_name \in {"double", "Double"} -> TypeDouble
      [] OTHER -> Class(type_name)

\* Variant: a name with type arguments is read as a Generic.
from_generic(type_name) ==
    CASE type_name = "byte" -> TypeByte
      [] type_name = "int" -> TypeInt
      [] type_name = "long" -> TypeLong
      [] type_name = "float" -> TypeFloat
      [] type_name = "double" -> TypeDouble
      [] type_name = "Vec<int>" -> Generic("Vec", <<TypeInt>>)
      [] OTHER -> Class(type_name)

\* impl From<&str> for Type: a match on the whole string, arm by arm.
from(type_name) ==
    CASE type_name = "byte" -> TypeByte
      [] type_name = "int" -> TypeInt
      [] type_name = "long" -> TypeLong
      [] type_name = "float" -> TypeFloat
      [] type_name = "double" -> TypeDouble
      [] OTHER -> Class(type_name)

(* ------------------------------ Keyword -------------------------------- *)

Keyword ==
    {"Fun", "Pub", "Impl", "Enum", "Const", "Class", "Do", "For", "If",
     "Elif", "Else", "Match", "While"}

\* Variant: Elif is spelled as Else is.
fmt_Keyword_elif_as_else(self) ==
    CASE self = "Fun" -> "fn"
      [] self = "Pub" -> "pub"
      [] self = "Impl" -> "impl"
      [] self = "Enum" -> "enum"
      [] self = "Const" -> "const"
      [] self = "Class" -> "class"
      [] self = "Do" -> "do"
      [] self = "For" -> "for"
      [] self = "If" -> "if"
      [] self = "Elif" -> "else"
      [] self = "Else" -> "else"
      [] self = "Match" -> "match"
      [] self = "While" -> "while"

\* impl fmt::Debug for Keyword
fmt_Keyword(self) ==
    CASE self = "Fun" -> "fn"
      [] self = "Pub" -> "pub"
      [] self = "Impl" -> "impl"
      [] self = "Enum" -> "enum"
      [] self = "Const" -> "const"
      [] self = "Class" -> "class"
      [] self = "Do" -> "do"
      [] self = "For" -> "for"
      [] self = "If" -> "if"
      [] self = "Elif" -> "elif"
      [] self = "Else" -> "else"
      [] self = "Match" -> "match"
      [] self = "While" -> "while"

(* ------------------------------ Operator ------------------------------- *)

Operator ==
    {"Add", "Sub", "Mul", "Div", "Mod", "Set", "Equ", "Neq", "Lt", "Lte",
     "Gt", "Gte", "And", "Or", "Not", "Xor", "Shl", "Shr", "BitOr",
     "BitAnd", "BitNot"}

\* Variant: Lte is spelled as Lt is.
fmt_Operator_lte_as_lt(self) ==
    CASE self = "Add" -> "+"
      [] self = "Sub" -> "-"
      [] self = "Mul" -> "*"
      [] self = "Div" -> "/"
      [] self = "Mod" -> "%"
      [] self = "Set" -> "="
      [] self = "Equ" -> "=="
      [] self = "Neq" -> "!="
      [] self = "Lt" -> "<"
      [] self = "Lte" -> "<"
      [] self = "Gt" -> ">"
      [] self = "Gte" -> ">="
      [] self = "And" -> "&&"
      [] self = "Or" -> "||"
      [] self = "Not" -> "!"
      [] self = "Xor" -> "^"
      [] self = "Shl" -> "<<"
      [] self = "Shr" -> ">>"
      [] self = "BitOr" -> "|"
      [] self = "BitAnd" -> "&"
      [] self = "BitNot" -> "~"

\* Variant: Xor and BitNot trade their symbols.
fmt_Operator_xor_bitnot(self) ==
    CASE self = "Add" -> "+"
      [] self = "Sub" -> "-"
      [] self = "Mul" -> "*"
      [] self = "Div" -> "/"
      [] self = "Mod" -> "%"
      [] self = "Set" -> "="
      [] self = "Equ" -> "=="
      [] self = "Neq" -> "!="
      [] self = "Lt" -> "<"
      [] self = "Lte" -> "<="
      [] self = "Gt" -> ">"
      [] self = "Gte" -> ">="
      [] self = "And" -> "&&"
      [] self = "Or" -> "||"
      [] self = "Not" -> "!"
      [] self = "Xor" -> "~"
      [] self = "Shl" -> "<<"
      [] self = "Shr" -> ">>"
      [] self = "BitOr" -> "|"
      [] self = "BitAnd" -> "&"
      [] self = "BitNot" -> "^"

\* impl fmt::Debug for Operator
fmt_Operator(self) ==
    CASE self = "Add" -> "+"
      [] self = "Sub" -> "-"
      [] self = "Mul" -> "*"
      [] self = "Div" -> "/"
      [] self = "Mod" -> "%"
      [] self = "Set" -> "="
      [] self = "Equ" -> "=="
      [] self = "Neq" -> "!="
      [] self = "Lt" -> "<"
      [] self = "Lte" -> "<="
      [] self = "Gt" -> ">"
      [] self = "Gte" -> ">="
      [] self = "And" -> "&&"
      [] self = "Or" -> "||"
      [] self = "Not" -> "!"
      [] self = "Xor" -> "^"
      [] self = "Shl" -> "<<"
      [] self = "Shr" -> ">>"
      [] self = "BitOr" -> "|"
      [] self = "BitAnd" -> "&"
      [] self = "BitNot" -> "~"

(* ------------------------------ ParseError ----------------------------- *)

Error == {"UnterminatedString"}

\* The message arm of the match on the error kind.
message(error) ==
    CASE error = "UnterminatedString" -> "Untermiated string literal"

\* The first part written: "Error on {}:{}:{}> " with context, line, column.
location(context, line, column) ==
    "Error on " \o context \o ":" \o Dec(line) \o ":" \o Dec(column) \o "> "

\* source.get_unchecked(line_start..): the bytes from line_start to the end,
\* with no check of the index.
get_unchecked(source, line_start) == SubSeq(source, line_start + 1, Len(source))

\* Index of the first LF of s, or 0 when s holds none.
find_lf(s) ==
    IF \E i \in 1..Len(s) : s[i] = LF
    THEN CHOOSE i \in 1..Len(s) : s[i] = LF /\ \A j \in 1..(i - 1) : s[j] # LF
    ELSE 0

\* Variant: the line keeps its terminator, as split_inclusive alone would.
lines_next_inclusive(s) ==
    IF s = <<>> THEN None
    ELSE LET lf == find_lf(s)
         IN IF lf = 0 THEN Some(s) ELSE Some(SubSeq(s, 1, lf))

\* str::lines().next(): nothing for the empty string; otherwise the text up
\* to and including the first LF (the whole string when it holds none), with
\* that LF removed and then a CR before it removed.  A CR that no LF follows
\* stays.
lines_next(s) ==
    IF s = <<>> THEN None
    ELSE LET lf == find_lf(s)
         IN IF lf = 0 THEN Some(s)
            ELSE IF lf > 1 /\ s[lf - 1] = CR THEN Some(SubSeq(s, 1, lf - 2))
            ELSE Some(SubSeq(s, 1, lf - 1))

EOF == <<"E", "O", "F">>

Ok(f) == [result |-> "Ok", f |-> f]
Undefined(f) == [result |-> "Undefined", f |-> f]

\* Variant: the end of the buffer is taken to be outside it.
in_contract_short(source, line_start) ==
    line_start < Len(source) /\ is_char_boundary(source, line_start)

\* The index contract of get_unchecked: within the buffer, on a character
\* boundary.
in_contract(source, line_start) ==
    line_start <= Len(source) /\ is_char_boundary(source, line_start)

\* impl fmt::Debug for ParseError, writing into a String: the outcomes of one
\* call.  Within the contract of get_unchecked there is one.  Outside it the
\* behaviour is undefined: the call may stop after the message, or go on with
\* whatever bytes the slice reads (the tail of a split character, or a byte
\* of whatever lies after the buffer).
fmt_ParseError(self) ==
    LET head == location(self.context, self.line, self.column) \o message(self.error)
        line_of(s) == head \o "\n  " \o Str(unwrap_or(lines_next(s), EOF))
    IN IF in_contract(self.source, self.line_start)
       THEN {Ok(line_of(get_unchecked(self.source, self.line_start)))}
       ELSE IF self.line_start <= Len(self.source)
       THEN {Undefined(head), Ok(line_of(get_unchecked(self.source, self.line_start)))}
       ELSE {Undefined(head)} \cup {Ok(line_of(<<b>>)) : b \in u8}

(* ------------------------------ inputs --------------------------------- *)

TypeNames ==
    {"byte", "int", "long", "float", "double",
     "", "Int", "BYTE", "Byte", "LONG", "Float", "Double",
     " int", "int ", " byte ", "float\n",
     "in", "integer", "doubles", "Foo", "Vec<int>", "string"}

ExampleSource ==
    <<"l", "e", "t", " ", "x", " ", "=", " ", "1", LF,
      "b", "a", "d", " ", "s", "t", "r", "i", "n", "g", LF>>

Sources ==
    {s \in UNION {[1..n -> u8] : n \in 0..MaxLen} : IsUtf8(s)}

Contexts == {"file.clo", ""}

ExampleError ==
    [error |-> "UnterminatedString", context |-> "file.clo", source |-> ExampleSource,
     line |-> 2, column |-> 5, line_start |-> 10]

ParseErrors ==
    {pe \in [error : Error, context : Contexts, source : Sources,
             line : 0..MaxLine, column : 0..MaxColumn, line_start : 0..(MaxLen + 1)] :
        pe.line_start <= Len(pe.source) + 1}
    \cup {[ExampleError EXCEPT !.line_start = o] : o \in 0..(Len(ExampleSource) + 1)}
    \cup {[ExampleError EXCEPT !.line = 1024, !.column = 80, !.line_start = o] :
            o \in 0..(Len(ExampleSource) + 1)}

(* ------------------------------ behaviour ------------------------------ *)

Calls ==
    {[fn |-> "Type::from", type_name |-> n] : n \in TypeNames}
    \cup {[fn |-> "Keyword::fmt", keyword |-> k] : k \in Keyword}
    \cup {[fn |-> "Operator::fmt", operator |-> o] : o \in Operator}
    \cup {[fn |-> "ParseError::fmt", parse_error |-> pe] : pe \in ParseErrors}

\* A caller holds a function and its argument; nothing has been returned.
Init ==
    /\ call \in Calls
    /\ ret = <<>>

CallTypeFrom ==
    /\ call.fn = "Type::from"
    /\ ret = <<>>
    /\ ret' = <<from(call.type_name)>>
    /\ UNCHANGED call

CallKeywordFmt ==
    /\ call.fn = "Keyword::fmt"
    /\ ret = <<>>
    /\ ret' = <<fmt_Keyword(call.keyword)>>
    /\ UNCHANGED call

CallOperatorFmt ==
    /\ call.fn = "Operator::fmt"
    /\ ret = <<>>
    /\ ret' = <<fmt_Operator(call.operator)>>
    /\ UNCHANGED call

CallParseErrorFmt ==
    /\ call.fn = "ParseError::fmt"
    /\ ret = <<>>
    /\ \E out \in fmt_ParseError(call.parse_error) : ret' = <<out>>
    /\ UNCHANGED call

\* The same ParseError rendered a second time.
CallParseErrorFmtAgain ==
    /\ call.fn = "ParseError::fmt"
    /\ Len(ret) = 1
    /\ \E out \in fmt_ParseError(call.parse_error) : ret' = Append(ret, out)
    /\ UNCHANGED call

Next ==
    \/ CallTypeFrom
    \/ CallKeywordFmt
    \/ CallOperatorFmt
    \/ CallParseErrorFmt
    \/ CallParseErrorFmtAgain

Spec == Init /\ [][Next]_vars

(* ------------------------------ claims: vocabulary --------------------- *)

Converted == call.fn = "Type::from" /\ ret # <<>>
RenderedKeyword == call.fn = "Keyword::fmt" /\ ret # <<>>
RenderedOperator == call.fn = "Operator::fmt" /\ ret # <<>>
Rendered == call.fn = "ParseError::fmt" /\ ret # <<>>

\* A line terminator starts at byte i (counted from 1) of src: LF, or CR LF.
TerminatorAt(src, i) ==
    \/ src[i] = LF
    \/ (src[i] = CR /\ i < Len(src) /\ src[i + 1] = LF)

TerminatedFrom(src, offset) == \E i \in (offset + 1)..Len(src) : TerminatorAt(src, i)

FirstTerminator(src, offset) ==
    CHOOSE i \in (offset + 1)..Len(src) :
        TerminatorAt(src, i) /\ \A j \in (offset + 1)..(i - 1) : ~TerminatorAt(src, j)

\* The line the specification describes: from the offset up to the first
\* terminator, or to the end of the buffer when there is none.
LineText(src, offset) ==
    IF TerminatedFrom(src, offset)
    THEN SubSeq(src, offset + 1, FirstTerminator(src, offset) - 1)
    ELSE SubSeq(src, offset + 1, Len(src))

OnCharBoundary(src, offset) ==
    /\ offset \in 0..Len(src)
    /\ (offset \in 1..(Len(src) - 1) => src[offset + 1] # Cont)

\* A position of the buffer: the offset of one of its characters.
ValidPosition(src, offset) == OnCharBoundary(src, offset) /\ offset < Len(src)

Prefix(pe) ==
    "Error on " \o pe.context \o ":" \o Dec(pe.line) \o ":" \o Dec(pe.column) \o "> "

(* ------------------------------ claims: ParseError --------------------- *)

\* C1: for every ParseError whose offset lies on a valid position of the
\* buffer, the diagnostic is exactly "Error on " context ":" line ":" column
\* "> " "Unterminated string literal" "\n  " and the text of the offending
\* line; the error of file.clo at (2, 5, 10) renders as
\* "Error on file.clo:2:5> Unterminated string literal\n  bad string".
C1_Diagnostic ==
    LET pe == call.parse_error
    IN (Rendered /\ ValidPosition(pe.source, pe.line_start)) =>
        /\ \A i \in 1..Len(ret) :
            ret[i].f = Prefix(pe) \o "Unterminated string literal" \o "\n  "
                       \o Str(LineText(pe.source, pe.line_start))
        /\ pe = ExampleError =>
            ret[1].f = "Error on file.clo:2:5> Unterminated string literal\n  bad string"

\* C2 as stated: for every offset in 0..len with a line terminator at or
\* after it, the text after the indentation is the buffer from the offset up
\* to, not including, the first terminator.
C2_LineUpToTerminator_AnyOffset ==
    LET pe == call.parse_error
    IN (Rendered /\ pe.line_start \in 0..Len(pe.source)
        /\ TerminatedFrom(pe.source, pe.line_start)) =>
        \A i \in 1..Len(ret) :
            /\ ret[i].result = "Ok"
            /\ ret[i].f = Prefix(pe) \o message(pe.error) \o "\n  "
                          \o Str(LineText(pe.source, pe.line_start))

\* C2 amended: for every offset in 0..len on a character boundary with a line
\* terminator at or after it, the text after the indentation is the buffer
\* from the offset up to, not including, the first terminator (empty when the
\* terminator is at the offset).
C2_LineUpToTerminator ==
    LET pe == call.parse_error
    IN (Rendered /\ OnCharBoundary(pe.source, pe.line_start)
        /\ TerminatedFrom(pe.source, pe.line_start)) =>
        \A i \in 1..Len(ret) :
            /\ ret[i].result = "Ok"
            /\ ret[i].f = Prefix(pe) \o message(pe.error) \o "\n  "
                          \o Str(LineText(pe.source, pe.line_start))

\* A line cut out of the middle of a buffer: text before the offset, text on
\* the line, text after the terminator.
C2_Witness ==
    LET pe == call.parse_error
    IN /\ Rendered
       /\ pe.line_start > 0
       /\ OnCharBoundary(pe.source, pe.line_start)
       /\ TerminatedFrom(pe.source, pe.line_start)
       /\ FirstTerminator(pe.source, pe.line_start) > pe.line_start + 1
       /\ FirstTerminator(pe.source, pe.line_start) < Len(pe.source)

\* C3 as stated: for every offset from 0 to len inclusive with no line
\* terminator at or after it, rendering completes and the line text is the
\* suffix of the buffer from the offset.
C3_LastLine_AnyOffset ==
    LET pe == call.parse_error
    IN (Rendered /\ pe.line_start \in 0..Len(pe.source)
        /\ ~TerminatedFrom(pe.source, pe.line_start)) =>
        \A i \in 1..Len(ret) :
            /\ ret[i].result = "Ok"
            /\ ret[i].f = Prefix(pe) \o message(pe.error) \o "\n  "
                          \o Str(SubSeq(pe.source, pe.line_start + 1, Len(pe.source)))

\* C3 amended: for every offset on a character boundary with no line
\* terminator at or after it, rendering completes; the line text is the
\* suffix of the buffer from the offset when the offset is before the end of
\* the buffer, and the text "EOF" when the offset is the end of the buffer.
C3_LastLine ==
    LET pe == call.parse_error
    IN (Rendered /\ OnCharBoundary(pe.source, pe.line_start)
        /\ ~TerminatedFrom(pe.source, pe.line_start)) =>
        \A i \in 1..Len(ret) :
            /\ ret[i].result = "Ok"
            /\ ret[i].f = Prefix(pe) \o message(pe.error) \o "\n  "
                          \o (IF pe.line_start < Len(pe.source)
                              THEN Str(SubSeq(pe.source, pe.line_start + 1, Len(pe.source)))
                              ELSE "EOF")

\* A last line without terminator, after an earlier terminated line.
C3_Witness ==
    LET pe == call.parse_error
    IN /\ Rendered
       /\ pe.line_start \in 1..(Len(pe.source) - 1)
       /\ pe.source[pe.line_start] = LF
       /\ OnCharBoundary(pe.source, pe.line_start)
       /\ ~TerminatedFrom(pe.source, pe.line_start)

\* The pieces of text a complete diagnostic may end with.
LineTexts(src) ==
    {SubSeq(src, a, b) : a \in 1..(Len(src) + 1), b \in 0..Len(src)} \cup {EOF}

Complete(pe, out) ==
    /\ out.result = "Ok"
    /\ \E text \in LineTexts(pe.source) :
        out.f = Prefix(pe) \o message(pe.error) \o "\n  " \o Str(text)

\* C10 as stated: for every error kind, context, line, column and every
\* offset from 0 to len inclusive, rendering reaches no failure and yields
\* one complete diagnostic, and a second rendering yields the same string.
C10_NeverFails_AnyOffset ==
    LET pe == call.parse_error
    IN (call.fn = "ParseError::fmt" /\ pe.line_start \in 0..Len(pe.source)) =>
        /\ ret = <<>> => ENABLED CallParseErrorFmt
        /\ \A i \in 1..Len(ret) : Complete(pe, ret[i]) /\ ret[i] = ret[1]

\* C10 amended: for every error kind, context, line, column (printed as
\* given, never checked against the buffer) and every offset from 0 to len
\* inclusive that lies on a character boundary, rendering reaches no failure
\* and yields one complete diagnostic, and a second rendering yields the
\* same string.
C10_NeverFails ==
    LET pe == call.parse_error
    IN (call.fn = "ParseError::fmt" /\ OnCharBoundary(pe.source, pe.line_start)) =>
        /\ ret = <<>> => ENABLED CallParseErrorFmt
        /\ \A i \in 1..Len(ret) : Complete(pe, ret[i]) /\ ret[i] = ret[1]

\* Rendered twice, at the end of a non-empty buffer, with line 0 and a
\* column past the end of the line.
C10_Witness ==
    LET pe == call.parse_error
    IN /\ call.fn = "ParseError::fmt"
       /\ Len(ret) = 2
       /\ pe.source # <<>>
       /\ pe.line_start = Len(pe.source)
       /\ pe.line = 0
       /\ pe.column > 0

(* ------------------------------ claims: Type --------------------------- *)

Reserved == {"byte", "int", "long", "float", "double"}

ScalarOf ==
    [byte |-> TypeByte, int |-> TypeInt, long |-> TypeLong,
     float |-> TypeFloat, double |-> TypeDouble]

\* C4: Type::from maps "byte" to Byte, "int" to Int, "long" to Long, "float"
\* to Float and "double" to Double, and no two reserved spellings map to the
\* same variant.
C4_ReservedSpellings ==
    (Converted /\ call.type_name \in Reserved) =>
        /\ ret[1] = ScalarOf[call.type_name]
        /\ \A other \in Reserved \ {call.type_name} : from(other) # ret[1]

C4_Witness == Converted /\ call.type_name = "long" /\ ret[1].tag = "Long"

\* C5: for every non-empty string s that is not exactly a reserved spelling,
\* Type::from(s) is Class(s) with s unchanged; case variants and padded
\* strings yield Class with the original string, never a scalar variant.
C5_OtherNamesAreClass ==
    (Converted /\ call.type_name # "" /\ call.type_name \notin Reserved) =>
        /\ ret[1].tag = "Class"
        /\ ret[1].name = call.type_name
        /\ ret[1] = Class(call.type_name)

C5_Witness ==
    Converted /\ call.type_name \in {"Int", "BYTE", " int"} /\ ret[1].tag = "Class"

\* C6: Type::from returns a value for every string, the empty string
\* included, and the value is one of the five scalar variants or
\* Class(name), never Generic.
C6_TotalNeverGeneric ==
    call.fn = "Type::from" =>
        /\ ret = <<>> => ENABLED CallTypeFrom
        /\ ret # <<>> =>
            /\ ret[1].tag # "Generic"
            /\ \/ ret[1] \in {TypeByte, TypeInt, TypeLong, TypeFloat, TypeDouble}
               \/ ret[1] = Class(call.type_name)

C6_Witness == Converted /\ call.type_name = "" /\ ret[1] = Class("")

(* ------------------------------ claims: Operator and Keyword ----------- *)

OperatorSymbol ==
    [Add |-> "+", Sub |-> "-", Mul |-> "*", Div |-> "/", Mod |-> "%",
     Set |-> "=", Equ |-> "==", Neq |-> "!=", Lt |-> "<", Lte |-> "<=",
     Gt |-> ">", Gte |-> ">=", And |-> "&&", Or |-> "||", Not |-> "!",
     Xor |-> "^", Shl |-> "<<", Shr |-> ">>", BitOr |-> "|", BitAnd |-> "&",
     BitNot |-> "~"]

KeywordSpelling ==
    [Fun |-> "fn", Pub |-> "pub", Impl |-> "impl", Enum |-> "enum",
     Const |-> "const", Class |-> "class", Do |-> "do", For |-> "for",
     If |-> "if", Elif |-> "elif", Else |-> "else", Match |-> "match",
     While |-> "while"]

\* C7: the rendering of Operator is injective: two distinct variants among
\* the 21 never render to the same symbol.
C7_OperatorInjective ==
    RenderedOperator =>
        /\ Cardinality(Operator) = 21
        /\ \A other \in Operator \ {call.operator} : fmt_Operator(other) # ret[1]

C7_Witness == RenderedOperator /\ call.operator = "Lt" /\ ret[1] = "<"

\* C8: every Operator variant renders to exactly the symbol the table of the
\* specification gives for it, with no surrounding text, and the rendering
\* covers all 21 variants.
C8_OperatorTable ==
    /\ DOMAIN OperatorSymbol = Operator
    /\ call.fn = "Operator::fmt" =>
        /\ ret = <<>> => ENABLED CallOperatorFmt
        /\ ret # <<>> => ret[1] = OperatorSymbol[call.operator]

C8_Witness == RenderedOperator /\ call.operator = "BitNot" /\ ret[1] = "~"

\* C9: every Keyword variant renders to exactly the spelling the table of
\* the specification gives for it, the rendering covers all 13 variants, and
\* no two variants share a spelling.
C9_KeywordTable ==
    /\ DOMAIN KeywordSpelling = Keyword
    /\ Cardinality(Keyword) = 13
    /\ call.fn = "Keyword::fmt" =>
        /\ ret = <<>> => ENABLED CallKeywordFmt
        /\ ret # <<>> =>
            /\ ret[1] = KeywordSpelling[call.keyword]
            /\ \A other \in Keyword \ {call.keyword} : fmt_Keyword(other) # ret[1]

C9_Witness == RenderedKeyword /\ call.keyword = "Elif" /\ ret[1] = "elif"

====
